---- MODULE Spec2Model ----
(***************************************************************************)
(* A model of the MobileCoin command-line wallet (mobilecoin/cli.py) and   *)
(* of the transaction test that drives its client (test/test_client.py).   *)
(*                                                                         *)
(* A behaviour is one invocation of the program: main dispatches one       *)
(* command, whose handler runs to its return, to exit(1) or to an uncaught *)
(* exception.  The file system is the only state the program carries from  *)
(* one invocation to the next and import is the only command that reads    *)
(* it, so an invocation may be followed by an import.                      *)
(*                                                                         *)
(* The wallet server is outside the program: every RPC answer, and every   *)
(* line the user types, is drawn when the call is made.  Strings are       *)
(* sequences of one-character strings.                                     *)
(***************************************************************************)
EXTENDS Integers, Sequences, FiniteSets, TLC

VARIABLES
    pc,         \* position of the running handler
    cmd,        \* the command main dispatched
    runs,       \* invocations started so far
    arg,        \* the command's string argument (seed, account_id prefix)
    fs,         \* the files of the working directory: name -> content
    accounts,   \* _load_account_prefix / list: the accounts just fetched
    account,    \* the account the handler works on
    balance,    \* the Balance last fetched
    answer,     \* confirm: what the user typed at the prompt
    decoded,    \* import_: what _load_import returned or raised
    secrets,    \* export: what export_account_secrets returned
    rpcs,       \* the RPC calls issued that change the wallet or expose it
    out,        \* the lines this invocation printed, in order
    exported,   \* the last file export wrote: name, entropy, first block
    todo,       \* list: accounts whose balance is still to be fetched
    listed,     \* list: account_list, the (account, balance) pairs fetched
    exc,        \* the exception that ended the invocation, if one did
    poll,       \* poll_balance_until_synced: target, attempts, result
    tx          \* test_transactions_inner: send number, submitted index

vars == <<pc, cmd, runs, arg, fs, accounts, account, balance, answer, decoded,
          secrets, rpcs, out, exported, todo, listed, exc, poll, tx>>

----------------------------------------------------------------------------
(* Bounds of the model. *)

\* Most accounts the server lists.
MaxAccounts == 2
\* Block indices the server reports: 0 and BaseBlock .. BaseBlock + BlockSpan.
BaseBlock == 9
BlockSpan == 1
\* Invocations in one behaviour.
MaxRuns == 2
\* poll_balance_until_synced: the configured bound on attempts.
MaxAttempts == 3

----------------------------------------------------------------------------
(* Strings. *)

RECURSIVE Rep(_, _)
Rep(s, n) == IF n <= 0 THEN <<>> ELSE s \o Rep(s, n - 1)

RECURSIVE JoinWith(_, _)
\* sep.join(parts)
JoinWith(sep, parts) ==
    IF parts = <<>> THEN <<>>
    ELSE IF Len(parts) = 1 THEN parts[1]
    ELSE parts[1] \o sep \o JoinWith(sep, Tail(parts))

\* s[:n]
Take(s, n) == SubSeq(s, 1, IF Len(s) < n THEN Len(s) ELSE n)

\* s.startswith(p)
StartsWith(s, p) == Len(p) <= Len(s) /\ SubSeq(s, 1, Len(p)) = p

\* s.split(c): the pieces between the places where c stands
Split(s, c) ==
    LET cuts == {0, Len(s) + 1} \cup {i \in 1..Len(s) : s[i] = c}
        cut(k) == CHOOSE p \in cuts : Cardinality({q \in cuts : q < p}) = k - 1
    IN  [k \in 1..(Cardinality(cuts) - 1) |->
            SubSeq(s, cut(k) + 1, cut(k + 1) - 1)]

UpperCase == <<"A", "B", "C", "D", "E", "F", "N", "O", "S", "Y">>
LowerCase == <<"a", "b", "c", "d", "e", "f", "n", "o", "s", "y">>

LowerChar(c) ==
    IF \E i \in 1..Len(UpperCase) : UpperCase[i] = c
    THEN LowerCase[CHOOSE i \in 1..Len(UpperCase) : UpperCase[i] = c]
    ELSE c

\* s.lower()
Lower(s) == [i \in 1..Len(s) |-> LowerChar(s[i])]

DecDigits == <<"0", "1", "2", "3", "4", "5", "6", "7", "8", "9">>
HexDigits == DecDigits \o <<"a", "b", "c", "d", "e", "f">>

IsDecDigit(c) == \E i \in 1..10 : DecDigits[i] = c
DecVal(c) == (CHOOSE i \in 1..10 : DecDigits[i] = c) - 1

IsHexDigit(c) == \E i \in 1..16 : HexDigits[i] = LowerChar(c)
HexVal(c) == (CHOOSE i \in 1..16 : HexDigits[i] = LowerChar(c)) - 1

RECURSIVE IntOf(_, _)
IntOf(s, acc) ==
    IF s = <<>> THEN acc ELSE IntOf(Tail(s), 10 * acc + DecVal(Head(s)))

\* int(s), for a string of decimal digits
int(s) == IntOf(s, 0)

RECURSIVE str(_)
\* str(n), for n >= 0
str(n) == IF n < 10 THEN <<DecDigits[n + 1]>>
          ELSE str(n \div 10) \o <<DecDigits[(n % 10) + 1]>>

----------------------------------------------------------------------------
(* bytes.fromhex and bytes.hex. *)

RECURSIVE FromHexBytes(_)
\* The bytes of s, or <<-1>> at the end where fromhex raises ValueError:
\* white space is skipped before a byte, never between its two digits.
FromHexBytes(s) ==
    IF s = <<>> THEN <<>>
    ELSE IF Head(s) = " " THEN FromHexBytes(Tail(s))
    ELSE IF Len(s) >= 2 /\ IsHexDigit(s[1]) /\ IsHexDigit(s[2])
         THEN <<16 * HexVal(s[1]) + HexVal(s[2])>>
              \o FromHexBytes(SubSeq(s, 3, Len(s)))
    ELSE <<-1>>

\* bytes.fromhex(s): [ok, bytes]; ok is FALSE where it raises ValueError.
fromhex(s) ==
    LET b == FromHexBytes(s)
    IN  IF b # <<>> /\ b[Len(b)] = -1
        THEN [ok |-> FALSE, bytes |-> <<>>]
        ELSE [ok |-> TRUE, bytes |-> b]

RECURSIVE hex(_)
\* b.hex()
hex(b) ==
    IF b = <<>> THEN <<>>
    ELSE <<HexDigits[(Head(b) \div 16) + 1], HexDigits[(Head(b) % 16) + 1]>>
         \o hex(Tail(b))

----------------------------------------------------------------------------
(* Values that cross the JSON boundary, and files. *)

None == [t |-> "null", s |-> <<>>]
StrV(s) == [t |-> "str", s |-> s]
IntV(n) == [t |-> "int", s |-> str(n)]

\* A JSON document as written: an object's members in order, an array, or
\* text json.load rejects; tail is what follows the document in the file.
Object(members) == [kind |-> "object", members |-> members, tail |-> <<>>]

HasKey(doc, k) == \E i \in 1..Len(doc.members) : doc.members[i][1] = k

\* data[k] of the dict json.load builds: the last member with that key
Get(doc, k) ==
    LET last == CHOOSE i \in 1..Len(doc.members) :
                    /\ doc.members[i][1] = k
                    /\ \A j \in (i + 1)..Len(doc.members) : doc.members[j][1] # k
    IN  doc.members[last][2]

----------------------------------------------------------------------------
(* Mnemonic('english'), of the mnemonic package.  The 2048-word list is cut *)
(* to the words the sample seeds use; SHA-256 is not modelled, so whether  *)
(* the checksum matches, and the bytes the words stand for, are drawn by   *)
(* the caller (lib).                                                       *)

abandon == <<"a", "b", "a", "n", "d", "o", "n">>
about == <<"a", "b", "o", "u", "t">>
art == <<"a", "r", "t">>
decade == <<"d", "e", "c", "a", "d", "e">>
face == <<"f", "a", "c", "e">>

WordList == {abandon, about, art, decade, face}
WordCounts == {12, 15, 18, 21, 24}
Libs == [checksum : BOOLEAN, byte : {0, 255}]

\* to_entropy(seed): [ok, exc, bytes]
to_entropy(seed, lib) ==
    LET words == Split(seed, " ")
    IN  IF Len(words) \notin WordCounts
        THEN [ok |-> FALSE, exc |-> "ValueError", bytes |-> <<>>]
        ELSE IF \E i \in 1..Len(words) : words[i] \notin WordList
        THEN [ok |-> FALSE, exc |-> "LookupError", bytes |-> <<>>]
        ELSE IF ~lib.checksum
        THEN [ok |-> FALSE, exc |-> "ValueError", bytes |-> <<>>]
        ELSE [ok |-> TRUE, exc |-> "",
              bytes |-> Rep(<<lib.byte>>, (Len(words) * 4) \div 3)]

\* to_mnemonic(data): ValueError unless data has 16, 20, 24, 28 or 32 bytes
to_mnemonic_ok(data) == Len(data) \in {16, 20, 24, 28, 32}

----------------------------------------------------------------------------
(* _load_import *)

EntropyLen == 32

Returned(entropy, block, tried) ==
    [ok |-> TRUE, exc |-> "", entropy |-> entropy, block |-> block,
     tried |-> tried]

Raised(error, tried) ==
    [ok |-> FALSE, exc |-> error, entropy |-> None, block |-> None,
     tried |-> tried]

\* Try to use it as hexadecimal root entropy.
TryHex(seed) ==
    LET b == fromhex(seed)
    IN  IF b.ok /\ Len(b.bytes) = EntropyLen
        THEN Returned(StrV(hex(b.bytes)), None, <<"hex">>)
        ELSE Raised("ValueError", <<"hex">>)

\* Try to interpret it as a BIP39 mnemonic.
TryMnemonic(seed, lib) ==
    LET e == to_entropy(seed, lib)
    IN  IF e.ok THEN Returned(StrV(hex(e.bytes)), None, <<"mnemonic">>)
        ELSE Raised(e.exc, <<"mnemonic">>)

\* Last chance, try to open it as a JSON filename.
TryFile(seed, files) ==
    IF seed \notin DOMAIN files THEN Raised("FileNotFoundError", <<"file">>)
    ELSE LET data == files[seed]
         IN  IF data.kind = "invalid" \/ \E i \in 1..Len(data.tail) :
                                            data.tail[i] \notin {" ", "\n"}
             THEN Raised("JSONDecodeError", <<"file">>)
             ELSE IF data.kind # "object" THEN Raised("TypeError", <<"file">>)
             ELSE IF ~HasKey(data, "root_entropy")
                     \/ ~HasKey(data, "first_block_index")
             THEN Raised("KeyError", <<"file">>)
             ELSE Returned(Get(data, "root_entropy"),
                           Get(data, "first_block_index"), <<"file">>)

\* r, with the attempts made before it
After(before, r) == [r EXCEPT !.tried = before \o r.tried]

_load_import_mnemonic_first(seed, files, lib) ==
    LET m == TryMnemonic(seed, lib)
        h == After(m.tried, TryHex(seed))
    IN  IF m.ok THEN m
        ELSE IF h.ok THEN h
        ELSE After(h.tried, TryFile(seed, files))

_load_import_default_fields(seed, files, lib) ==
    LET h == TryHex(seed)
        m == After(h.tried, TryMnemonic(seed, lib))
        f == After(m.tried, TryFile(seed, files))
    IN  IF h.ok THEN h
        ELSE IF m.ok THEN m
        ELSE IF f.ok THEN f
        ELSE Returned(None, None, f.tried)

_load_import(seed, files, lib) ==
    LET h == TryHex(seed)
        m == After(h.tried, TryMnemonic(seed, lib))
    IN  IF h.ok THEN h
        ELSE IF m.ok THEN m
        ELSE After(m.tried, TryFile(seed, files))

----------------------------------------------------------------------------
(* What the server answers and what the user types. *)

Ids == {<<"a">>, <<"a", "b">>, <<"a", "c">>, <<"b", "a", "b">>,
        Rep(<<"c">>, 17)}
Prefixes == {<<>>, <<"a">>, <<"a", "b">>, <<"a", "c">>, <<"b">>,
             <<"a", "b", "c">>, <<"z">>, Rep(<<"c">>, 16)}

Blocks == {0} \cup (BaseBlock..(BaseBlock + BlockSpan))
BlockStrs == {str(n) : n \in Blocks}
FirstBlocks == {str(0), str(BaseBlock)}

Account(id, first) ==
    [account_id |-> id, name |-> <<>>, main_address |-> <<"@">> \o id,
     first_block_index |-> first]
NoAccount == Account(<<>>, <<>>)

\* get_all_accounts: a dict keyed by account_id, so no two share an id
AccountSets ==
    {{Account(id, first) : id \in S} :
        S \in {T \in SUBSET Ids : Cardinality(T) <= MaxAccounts},
        first \in FirstBlocks}

ZeroPmob == <<"0">>
TenthMob == <<"1">> \o Rep(<<"0">>, 11)
OneMob == <<"1">> \o Rep(<<"0">>, 12)
Pmobs == {ZeroPmob, TenthMob, OneMob}

Balances ==
    [unspent_pmob : Pmobs, account_block_index : BlockStrs,
     network_block_index : BlockStrs, local_block_index : BlockStrs,
     is_synced : BOOLEAN]
NoBalance ==
    [unspent_pmob |-> <<>>, account_block_index |-> <<>>,
     network_block_index |-> <<>>, local_block_index |-> <<>>,
     is_synced |-> FALSE]

\* The balances of an account that has caught up with the local ledger, and
\* among them those of an empty account the server calls synced.  import,
\* export and list draw from IdleBalances, delete from SettledBalances, the
\* waits for synchronization from all of Balances.
SettledBalances ==
    {b \in Balances : b.account_block_index = b.local_block_index}
IdleBalances ==
    {b \in SettledBalances : b.unspent_pmob = ZeroPmob /\ b.is_synced}

Answers == {<<"y">>, <<"Y">>, <<"y", "e", "s">>, <<"Y", "e", "S">>,
            <<"n">>, <<>>, <<"y", "e">>, <<"y", "e", "s", " ">>}
NoAnswer == <<"?">>

Entropy00 == Rep(<<"0", "0">>, EntropyLen)
EntropyAb == Rep(<<"a", "b">>, EntropyLen)
AccountKey == [t |-> "key", s |-> <<>>]
\* export_account_secrets: the entropy in hex and the account key
Secrets == [entropy : {Entropy00, EntropyAb, <<"0", "0">>, <<"z">>},
            account_key : {AccountKey}]
NoSecrets == [entropy |-> <<>>, account_key |-> AccountKey]

GoodFile == <<"w">>
ShortFile == <<"a", "b">>
HexNamedFile == Rep(<<"0", "0">>, EntropyLen)
NoBlockFile == <<"k">>
ArrayFile == <<"l">>
InvalidFile == <<"x">>
TrailingFile == <<"t">>
MissingFile == <<"m">>

WalletRecord(entropy, first) ==
    Object(<<<<"root_entropy", StrV(entropy)>>,
             <<"first_block_index", StrV(first)>>>>)

\* The working directory before the first invocation.
SampleFiles ==
    (GoodFile :> WalletRecord(EntropyAb, str(BaseBlock)))
    @@ (ShortFile :> WalletRecord(<<"0", "0">>, str(0)))
    @@ (HexNamedFile :> WalletRecord(EntropyAb, str(BaseBlock)))
    @@ (NoBlockFile :> Object(<<<<"root_entropy", StrV(EntropyAb)>>>>))
    @@ (ArrayFile :> [kind |-> "array", members |-> <<>>, tail |-> <<>>])
    @@ (InvalidFile :> [kind |-> "invalid", members |-> <<>>, tail |-> <<>>])
    @@ (TrailingFile :> [WalletRecord(Entropy00, str(0))
                            EXCEPT !.tail = <<"\n", "x">>])

HexWords == JoinWith(<<" ">>, [i \in 1..12 |-> IF i <= 8 THEN decade ELSE face])
Phrase(n, last) ==
    JoinWith(<<" ">>, [i \in 1..n |-> IF i < n THEN abandon ELSE last])

\* Seeds the user may pass to import, besides the names of the files.
SampleSeeds ==
    {Entropy00, Rep(<<"A", "b">>, EntropyLen), Rep(<<"0", "0", " ">>, EntropyLen),
     Rep(<<"0", "0">>, EntropyLen - 1), Rep(<<"0", "0">>, EntropyLen + 1),
     Rep(<<"0", "g">>, EntropyLen), Tail(Entropy00), HexWords,
     Phrase(12, about), Phrase(24, art), Phrase(11, about),
     Phrase(12, <<"x", "y", "z">>), Phrase(15, about), MissingFile, <<>>}

\* -b/--block as argparse leaves it
BlockOptions == {None, IntV(BaseBlock + 1)}

----------------------------------------------------------------------------
(* Helpers of the handlers. *)

\* pmob2mob of mobilecoin.client: a Decimal, its coefficient's digits and
\* its exponent; 10^12 pmob make one MOB.
PmobExp == 12
pmob2mob(pmob) == [coeff |-> pmob, exp |-> 0 - PmobExp]
IsZero(d) == \A i \in 1..Len(d.coeff) : d.coeff[i] = "0"

\* One RPC call as issued: the operation and what it was given.
Rpc(op, a, block) == [op |-> op, a |-> a, block |-> block]

\* One printed line: a message, or an account as _print_account shows it.
Printed(tag, ids) ==
    [tag |-> tag, ids |-> ids, id |-> <<>>, amount |-> pmob2mob(ZeroPmob),
     synced |-> <<>>, total |-> <<>>, offline |-> FALSE]

confirm_anything(message, typed) == TRUE

\* confirm(message), typed being what input(message) returned
confirm(message, typed) == Lower(typed) \in {<<"y">>, <<"y", "e", "s">>}

_print_account_network_only(acct, bal) ==
    LET total_blocks == int(bal.network_block_index)
        offline == (total_blocks = 0)
    IN  [tag |-> "account", ids |-> {}, id |-> Take(acct.account_id, 6),
         amount |-> pmob2mob(bal.unspent_pmob),
         synced |-> bal.account_block_index,
         total |-> str(total_blocks), offline |-> offline]

_print_account(acct, bal) ==
    LET total_blocks == int(bal.network_block_index)
        offline == (total_blocks = 0)
    IN  [tag |-> "account", ids |-> {}, id |-> Take(acct.account_id, 6),
         amount |-> pmob2mob(bal.unspent_pmob),
         synced |-> bal.account_block_index,
         total |-> IF offline THEN bal.local_block_index
                   ELSE str(total_blocks),
         offline |-> offline]

matching_ids(prefix, accs) ==
    {a.account_id : a \in {x \in accs : StartsWith(x.account_id, prefix)}}

_load_account_prefix_first_match(prefix, accs) ==
    LET ids == matching_ids(prefix, accs)
    IN  IF Cardinality(ids) = 0
        THEN [found |-> FALSE, account |-> NoAccount,
              printed |-> Printed("Could not find account starting with",
                                  {prefix})]
        ELSE [found |-> TRUE,
              account |-> CHOOSE a \in accs : a.account_id \in ids,
              printed |-> Printed("", {})]

\* _load_account_prefix(prefix), accs being what get_all_accounts returned:
\* the account, or the line printed before exit(1)
_load_account_prefix(prefix, accs) ==
    LET ids == matching_ids(prefix, accs)
    IN  IF Cardinality(ids) = 0
        THEN [found |-> FALSE, account |-> NoAccount,
              printed |-> Printed("Could not find account starting with",
                                  {prefix})]
        ELSE IF Cardinality(ids) = 1
        THEN [found |-> TRUE,
              account |-> CHOOSE a \in accs : a.account_id \in ids,
              printed |-> Printed("", {})]
        ELSE [found |-> FALSE, account |-> NoAccount,
              printed |-> Printed("Multiple matching matching ids", ids)]

SeedPhrasePrefix ==
    <<"m", "o", "b", "i", "l", "e", "c", "o", "i", "n", "_", "s", "e", "e",
      "d", "_", "p", "h", "r", "a", "s", "e", "_">>
DotJson == <<".", "j", "s", "o", "n">>
\* 'mobilecoin_seed_phrase_{}.json'.format(account_id[:16])
export_filename(account_id) ==
    SeedPhrasePrefix \o Take(account_id, 16) \o DotJson

\* files after open(filename, 'w') and the writes to it
Write(files, filename, doc) ==
    [n \in DOMAIN files \cup {filename} |->
        IF n = filename THEN doc ELSE files[n]]

export_data_entropy_key(acct, secret) ==
    [kind |-> "object",
     members |-> <<<<"seed_phrase", [t |-> "phrase", s |-> secret.entropy]>>,
                   <<"entropy", StrV(secret.entropy)>>,
                   <<"account_id", StrV(acct.account_id)>>,
                   <<"account_name", StrV(acct.name)>>,
                   <<"account_key", secret.account_key>>,
                   <<"first_block_index", StrV(acct.first_block_index)>>>>,
     tail |-> <<"\n">>]

\* export_data as json.dump(export_data, f, indent=4) and f.write('\n')
\* leave it in the file; the seed phrase is kept as the entropy it encodes
export_data(acct, secret) ==
    [kind |-> "object",
     members |-> <<<<"seed_phrase", [t |-> "phrase", s |-> secret.entropy]>>,
                   <<"root_entropy", StrV(secret.entropy)>>,
                   <<"account_id", StrV(acct.account_id)>>,
                   <<"account_name", StrV(acct.name)>>,
                   <<"account_key", secret.account_key>>,
                   <<"first_block_index", StrV(acct.first_block_index)>>>>,
     tail |-> <<"\n">>]

\* _save_export(account, secrets, filename): the files after it, or the
\* ValueError of bytes.fromhex / to_mnemonic, raised before the file is opened
_save_export(acct, secret, filename, files) ==
    LET b == fromhex(secret.entropy)
    IN  IF ~b.ok \/ ~to_mnemonic_ok(b.bytes)
        THEN [ok |-> FALSE, exc |-> "ValueError", files |-> files]
        ELSE [ok |-> TRUE, exc |-> "",
              files |-> Write(files, filename, export_data(acct, secret))]

----------------------------------------------------------------------------
(* The state before the first invocation. *)

NoLib == [checksum |-> FALSE, byte |-> 0]
\* What _load_import gave, with what the mnemonic package answered it
Decoded(r, lib) ==
    [ok |-> r.ok, exc |-> r.exc, entropy |-> r.entropy, block |-> r.block,
     tried |-> r.tried, lib |-> lib]
NoDecoded == Decoded(Raised("", <<>>), NoLib)
NoExport == [name |-> <<>>, entropy |-> <<>>, first_block_index |-> <<>>]
NoPoll == [active |-> FALSE, id |-> <<>>, given |-> FALSE, target |-> 0,
           attempts |-> 0, result |-> "", return |-> ""]
NoTx == [send |-> 0, submitted |-> 0, dest |-> NoAccount]
NoArg == [s |-> <<>>, block |-> None]

Init ==
    /\ pc = "idle"
    /\ cmd = ""
    /\ runs = 0
    /\ arg = NoArg
    /\ fs = SampleFiles
    /\ accounts = {}
    /\ account = NoAccount
    /\ balance = NoBalance
    /\ answer = NoAnswer
    /\ decoded = NoDecoded
    /\ secrets = NoSecrets
    /\ rpcs = <<>>
    /\ out = <<>>
    /\ exported = NoExport
    /\ todo = {}
    /\ listed = <<>>
    /\ exc = ""
    /\ poll = NoPoll
    /\ tx = NoTx

Ended == pc \in {"done", "exit1", "raised"}

Commands == {"", "import", "export", "delete", "send", "list"}

ArgsOf(c) ==
    IF c = "import"
    THEN [s : SampleSeeds \cup DOMAIN fs, block : BlockOptions]
    ELSE IF c \in {"export", "delete", "send"}
    THEN [s : Prefixes, block : {None}]
    ELSE {NoArg}

\* main: argparse leaves the command and its arguments; without a command
\* the help is printed and the program exits with status 1.
main ==
    /\ pc = "idle"
    /\ runs < MaxRuns
    /\ \E c \in Commands :
        /\ runs > 0 => c = "import"
        /\ \E a \in ArgsOf(c) : arg' = a
        /\ cmd' = c
        /\ pc' = IF c = "" THEN "exit1" ELSE c
        /\ out' = IF c = "" THEN <<Printed("help", {})>> ELSE <<>>
    /\ runs' = runs + 1
    /\ UNCHANGED <<fs, accounts, account, balance, answer, decoded, secrets,
                   rpcs, exported, todo, listed, exc, poll, tx>>

\* The process ends: nothing of it is left but the files it wrote.
process_exit ==
    /\ Ended
    /\ runs < MaxRuns
    /\ pc' = "idle"
    /\ cmd' = ""
    /\ arg' = NoArg
    /\ accounts' = {}
    /\ account' = NoAccount
    /\ balance' = NoBalance
    /\ answer' = NoAnswer
    /\ decoded' = NoDecoded
    /\ secrets' = NoSecrets
    /\ rpcs' = <<>>
    /\ out' = <<>>
    /\ todo' = {}
    /\ listed' = <<>>
    /\ exc' = ""
    /\ poll' = NoPoll
    /\ tx' = NoTx
    /\ UNCHANGED <<runs, fs, exported>>

\* rpcs after the call: the calls that read the wallet (accounts, balances,
\* txos) are not kept, those that change it or take secrets out of it are.
ReadOps == {"get_all_accounts", "get_balance_for_account",
            "get_all_txos_for_account"}
Issued(call) == IF call.op \in ReadOps THEN rpcs ELSE Append(rpcs, call)

\* An RPC call raises: the handlers catch nothing.
RpcRaises(call) ==
    /\ rpcs' = Issued(call)
    /\ pc' = "raised"
    /\ exc' = "WalletAPIError"

----------------------------------------------------------------------------
(* import_ *)

import_load ==
    /\ pc = "import"
    /\ \E lib \in Libs : \E r \in {_load_import(arg.s, fs, lib)} :
            /\ decoded' = Decoded(r, lib)
            /\ arg' = IF arg.block = None /\ r.block # None
                      THEN [arg EXCEPT !.block = r.block] ELSE arg
            /\ pc' = IF r.ok THEN "import_account" ELSE "raised"
            /\ exc' = r.exc
    /\ UNCHANGED <<cmd, runs, fs, accounts, account, balance, answer, secrets,
                   rpcs, out, exported, todo, listed, poll, tx>>

\* The account the server makes of an entropy: its identifier is the
\* server's choice, its first block the one asked for.
NewAccounts == {Account(id, first) : id \in {<<"a">>}, first \in FirstBlocks}

import_account ==
    /\ pc = "import_account"
    /\ LET call == Rpc("import_account", decoded.entropy, arg.block)
       IN  \/ /\ rpcs' = Issued(call)
              /\ \E a \in NewAccounts : account' = a
              /\ pc' = "import_balance"
              /\ UNCHANGED exc
           \/ RpcRaises(call) /\ UNCHANGED account
    /\ UNCHANGED <<cmd, runs, arg, fs, accounts, balance, answer, decoded,
                   secrets, out, exported, todo, listed, poll, tx>>

import_balance ==
    /\ pc = "import_balance"
    /\ LET call == Rpc("get_balance_for_account", StrV(account.account_id), None)
       IN  \/ /\ rpcs' = Issued(call)
              /\ \E b \in IdleBalances :
                    /\ balance' = b
                    /\ out' = out \o <<Printed("Imported account.", {}),
                                       _print_account(account, b)>>
              /\ pc' = "done"
              /\ UNCHANGED exc
           \/ RpcRaises(call) /\ UNCHANGED <<balance, out>>
    /\ UNCHANGED <<cmd, runs, arg, fs, accounts, account, answer, decoded,
                   secrets, exported, todo, listed, poll, tx>>

----------------------------------------------------------------------------
(* export, delete and send start by _load_account_prefix. *)

load_account(here, next) ==
    /\ pc = here
    /\ LET call == Rpc("get_all_accounts", None, None)
       IN  \/ /\ rpcs' = Issued(call)
              /\ \E accs \in AccountSets :
                    \E r \in {_load_account_prefix(arg.s, accs)} :
                        /\ accounts' = accs
                        /\ account' = r.account
                        /\ pc' = IF r.found THEN next ELSE "exit1"
                        /\ out' = IF r.found THEN out
                                  ELSE Append(out, r.printed)
              /\ UNCHANGED exc
           \/ RpcRaises(call) /\ UNCHANGED <<accounts, account, out>>
    /\ UNCHANGED <<cmd, runs, arg, fs, balance, answer, decoded, secrets,
                   exported, todo, listed, poll, tx>>

\* confirm(message): what the user types is kept, and the handler goes on to
\* yes or prints 'Cancelled.' and returns.
ask(here, message, yes) ==
    /\ pc = here
    /\ \E typed \in Answers :
        /\ answer' = typed
        /\ IF confirm(message, typed)
           THEN pc' = yes /\ UNCHANGED out
           ELSE pc' = "done" /\ out' = Append(out, Printed("Cancelled.", {}))
    /\ UNCHANGED <<cmd, runs, arg, fs, accounts, account, balance, decoded,
                   secrets, rpcs, exported, todo, listed, exc, poll, tx>>

----------------------------------------------------------------------------
(* export *)

export_load == load_account("export", "export_balance")

export_balance ==
    /\ pc = "export_balance"
    /\ LET call == Rpc("get_balance_for_account", StrV(account.account_id), None)
       IN  \/ /\ rpcs' = Issued(call)
              /\ \E b \in IdleBalances :
                    /\ balance' = b
                    /\ out' = out \o
                        <<Printed("You are about to export the seed phrase", {}),
                          _print_account(account, b)>>
              /\ pc' = "export_confirm"
              /\ UNCHANGED exc
           \/ RpcRaises(call) /\ UNCHANGED <<balance, out>>
    /\ accounts' = {}
    /\ UNCHANGED <<cmd, runs, arg, fs, account, answer, decoded, secrets,
                   exported, todo, listed, poll, tx>>

export_confirm ==
    ask("export_confirm", "Really write account seed phrase to a file? (Y/N) ",
        "export_secrets")

export_secrets ==
    /\ pc = "export_secrets"
    /\ LET call == Rpc("export_account_secrets", StrV(account.account_id), None)
       IN  \/ /\ rpcs' = Issued(call)
              /\ \E s \in Secrets : secrets' = s
              /\ pc' = "export_save"
              /\ UNCHANGED exc
           \/ RpcRaises(call) /\ UNCHANGED secrets
    /\ UNCHANGED <<cmd, runs, arg, fs, accounts, account, balance, answer,
                   decoded, out, exported, todo, listed, poll, tx>>

export_save ==
    /\ pc = "export_save"
    /\ \E filename \in {export_filename(account.account_id)} :
       \E r \in {_save_export(account, secrets, filename, fs)} :
           /\ fs' = r.files
           /\ exc' = r.exc
           /\ IF r.ok
              THEN /\ pc' = "done"
                   /\ out' = Append(out, Printed("Wrote", {filename}))
                   /\ exported' = [name |-> filename,
                                   entropy |-> secrets.entropy,
                                   first_block_index |->
                                       account.first_block_index]
              ELSE /\ pc' = "raised"
                   /\ UNCHANGED <<out, exported>>
    /\ UNCHANGED <<cmd, runs, arg, accounts, account, balance, answer, decoded,
                   secrets, rpcs, todo, listed, poll, tx>>

----------------------------------------------------------------------------
(* delete *)

delete_load == load_account("delete", "delete_balance")

delete_balance ==
    /\ pc = "delete_balance"
    /\ LET call == Rpc("get_balance_for_account", StrV(account.account_id), None)
       IN  \/ /\ rpcs' = Issued(call)
              /\ \E b \in SettledBalances :
                    LET amount == pmob2mob(b.unspent_pmob)
                    IN  /\ balance' = b
                        /\ IF b.is_synced /\ IsZero(amount)
                           THEN /\ out' = Append(out, Printed("Account has 0 MOB.",
                                            {Take(account.account_id, 6)}))
                                /\ pc' = "delete_account"
                           ELSE /\ out' = out \o
                                    <<Printed("You are about to delete this account", {}),
                                      _print_account(account, b)>>
                                /\ pc' = "delete_confirm"
              /\ UNCHANGED exc
           \/ RpcRaises(call) /\ UNCHANGED <<balance, out>>
    /\ accounts' = {}
    /\ UNCHANGED <<cmd, runs, arg, fs, account, answer, decoded, secrets,
                   exported, todo, listed, poll, tx>>

delete_confirm == ask("delete_confirm", "Continue? (Y/N) ", "delete_account")

delete_account ==
    /\ pc = "delete_account"
    /\ LET call == Rpc("delete_account", StrV(account.account_id), None)
       IN  \/ /\ rpcs' = Issued(call)
              /\ out' = Append(out, Printed("Deleted.", {}))
              /\ pc' = "done"
              /\ UNCHANGED exc
           \/ RpcRaises(call) /\ UNCHANGED out
    /\ UNCHANGED <<cmd, runs, arg, fs, accounts, account, balance, answer,
                   decoded, secrets, exported, todo, listed, poll, tx>>

----------------------------------------------------------------------------
(* send *)

send_load == load_account("send", "send_print")

\* '\n'.join(a, b): str.join takes one argument, so the summary is never
\* printed and neither the prompt nor send_transaction is reached.
send_print ==
    /\ pc = "send_print"
    /\ pc' = "raised"
    /\ exc' = "TypeError"
    /\ accounts' = {}
    /\ UNCHANGED <<cmd, runs, arg, fs, account, balance, answer, decoded,
                   secrets, rpcs, out, exported, todo, listed, poll, tx>>

----------------------------------------------------------------------------
(* list *)

\* The accounts are taken in the order the server's dict gives them, here
\* the identifiers' alphabetical order.
IdChars == <<"a", "b", "c">>
CharRank(c) == CHOOSE i \in 1..Len(IdChars) : IdChars[i] = c
Before(x, y) ==
    \E i \in 1..Len(y) :
        /\ i - 1 <= Len(x)
        /\ SubSeq(x, 1, i - 1) = SubSeq(y, 1, i - 1)
        /\ IF i > Len(x) THEN TRUE ELSE CharRank(x[i]) < CharRank(y[i])
NextOf(accs) ==
    CHOOSE a \in accs : \A b \in accs \ {a} : Before(a.account_id, b.account_id)

list_accounts ==
    /\ pc = "list"
    /\ LET call == Rpc("get_all_accounts", None, None)
       IN  \/ /\ rpcs' = Issued(call)
              /\ \E accs \in AccountSets :
                    /\ accounts' = accs
                    /\ todo' = accs
                    /\ IF accs = {}
                       THEN /\ out' = Append(out, Printed("No accounts.", {}))
                            /\ pc' = "done"
                       ELSE /\ pc' = "list_balance"
                            /\ UNCHANGED out
              /\ UNCHANGED exc
           \/ RpcRaises(call) /\ UNCHANGED <<accounts, todo, out>>
    /\ UNCHANGED <<cmd, runs, arg, fs, account, balance, answer, decoded,
                   secrets, exported, listed, poll, tx>>

list_balance ==
    /\ pc = "list_balance"
    /\ LET a == NextOf(todo)
           call == Rpc("get_balance_for_account", StrV(a.account_id), None)
       IN  \/ /\ rpcs' = Issued(call)
              /\ \E b \in IdleBalances : listed' = Append(listed, <<a, b>>)
              /\ todo' = todo \ {a}
              /\ pc' = IF todo = {a} THEN "list_print" ELSE "list_balance"
              /\ UNCHANGED exc
           \/ RpcRaises(call) /\ UNCHANGED <<listed, todo>>
    /\ UNCHANGED <<cmd, runs, arg, fs, accounts, account, balance, answer,
                   decoded, secrets, out, exported, poll, tx>>

list_print ==
    /\ pc = "list_print"
    /\ out' = out \o [i \in 1..Len(listed) |->
                        _print_account(listed[i][1], listed[i][2])]
    /\ pc' = "done"
    /\ UNCHANGED <<cmd, runs, arg, fs, accounts, account, balance, answer,
                   decoded, secrets, rpcs, exported, todo, listed, exc, poll, tx>>

----------------------------------------------------------------------------
(* poll_balance_until_synced of mobilecoin.client, which is not among the   *)
(* sources: the wait as the specification words it.  Balances are fetched  *)
(* until the account has caught up, with a pause between two attempts,     *)
(* and SyncTimeout is raised after MaxAttempts of them.                    *)

\* The index the account is to catch up with when no target is given.
ceiling(bal) ==
    IF int(bal.network_block_index) = 0 THEN int(bal.local_block_index)
    ELSE int(bal.network_block_index)

caught_up(bal, given, target) ==
    IF given THEN int(bal.account_block_index) >= target
    ELSE int(bal.account_block_index) = ceiling(bal)

attempts_left_forever(attempts) == TRUE

attempts_left(attempts) == attempts < MaxAttempts

Polling(id, given, target, return) ==
    [active |-> TRUE, id |-> id, given |-> given, target |-> target,
     attempts |-> 0, result |-> "", return |-> return]

\* One attempt.  The caller's balance is assigned when the wait returns.
poll_fetch ==
    /\ pc = "poll"
    /\ LET call == Rpc("get_balance_for_account", StrV(poll.id), None)
       IN  \/ /\ rpcs' = Issued(call)
              /\ \E b \in Balances :
                    IF caught_up(b, poll.given, poll.target)
                    THEN /\ poll' = [poll EXCEPT !.active = FALSE,
                                         !.attempts = @ + 1,
                                         !.result = "synced"]
                         /\ balance' = b
                         /\ pc' = poll.return
                         /\ UNCHANGED exc
                    ELSE IF attempts_left(poll.attempts + 1)
                    THEN /\ poll' = [poll EXCEPT !.attempts = @ + 1]
                         /\ UNCHANGED <<pc, exc, balance>>
                    ELSE /\ poll' = [poll EXCEPT !.active = FALSE,
                                         !.attempts = @ + 1,
                                         !.result = "SyncTimeout"]
                         /\ pc' = "raised"
                         /\ exc' = "SyncTimeout"
                         /\ UNCHANGED balance
           \/ /\ RpcRaises(call)
              /\ poll' = [poll EXCEPT !.active = FALSE,
                              !.result = "WalletAPIError"]
              /\ UNCHANGED balance
    /\ UNCHANGED <<cmd, runs, arg, fs, accounts, account, answer, decoded,
                   secrets, out, exported, todo, listed, tx>>

----------------------------------------------------------------------------
(* test_transactions_inner(c, source_account) *)

AtLeastOneMob(d) == Len(d.coeff) > 0 - d.exp /\ d.coeff[1] # "0"
IsTenthMob(d) == d.coeff = TenthMob /\ d.exp = 0 - PmobExp

SourceAccount == Account(<<"a", "b">>, str(0))

confirmation_target_same_block(tx_index) == tx_index

\* tx_index + 1: the block after the one the transaction was submitted at
confirmation_target(tx_index) == tx_index + 1

after_submit_error_retry == "test_submit"

\* build_and_submit_transaction raises: nothing in the test catches it and
\* calls again
after_submit_error == "raised"

test_transactions_inner ==
    /\ pc = "idle"
    /\ runs = 0
    /\ runs' = 1
    /\ cmd' = "test"
    /\ account' = SourceAccount
    /\ poll' = Polling(SourceAccount.account_id, FALSE, 0, "test_txos")
    /\ pc' = "poll"
    /\ UNCHANGED <<arg, fs, accounts, balance, answer, decoded, secrets, rpcs,
                   out, exported, todo, listed, exc, tx>>

AssertionFails ==
    /\ pc' = "raised"
    /\ exc' = "AssertionError"

\* From here on a balance the test has checked is no longer kept: the test
\* does not read it again.
test_txos ==
    /\ pc = "test_txos"
    /\ IF ~AtLeastOneMob(pmob2mob(balance.unspent_pmob))
       THEN AssertionFails /\ UNCHANGED rpcs
       ELSE LET call == Rpc("get_all_txos_for_account",
                            StrV(account.account_id), None)
            IN  \/ /\ rpcs' = Issued(call)
                   /\ \E n \in {0, 1} :
                        IF n > 0 THEN pc' = "test_create" /\ UNCHANGED exc
                        ELSE AssertionFails
                \/ RpcRaises(call)
    /\ balance' = NoBalance
    /\ UNCHANGED <<cmd, runs, arg, fs, accounts, account, answer, decoded,
                   secrets, out, exported, todo, listed, poll, tx>>

test_create ==
    /\ pc = "test_create"
    /\ LET call == Rpc("create_account", None, None)
       IN  \/ /\ rpcs' = Issued(call)
              /\ \E a \in NewAccounts : tx' = [tx EXCEPT !.dest = a, !.send = 1]
              /\ pc' = "test_submit"
              /\ UNCHANGED exc
           \/ RpcRaises(call) /\ UNCHANGED tx
    /\ UNCHANGED <<cmd, runs, arg, fs, accounts, account, balance, answer,
                   decoded, secrets, out, exported, todo, listed, poll>>

\* The first transaction goes from the source account to the new one, the
\* second back; both waits are for the new account.
test_submit ==
    /\ pc = "test_submit"
    /\ LET from == IF tx.send = 1 THEN account.account_id
                   ELSE tx.dest.account_id
           call == Rpc("build_and_submit_transaction", StrV(from), None)
       IN  /\ rpcs' = Issued(call)
           /\ \/ \E s \in BlockStrs :
                    LET tx_index == int(s)
                    IN  /\ tx' = [tx EXCEPT !.submitted = tx_index]
                        /\ poll' = Polling(tx.dest.account_id, TRUE,
                                           confirmation_target(tx_index),
                                           "test_check")
                        /\ pc' = "poll"
                        /\ UNCHANGED exc
              \/ /\ pc' = after_submit_error
                 /\ exc' = "WalletAPIError"
                 /\ UNCHANGED <<tx, poll>>
    /\ UNCHANGED <<cmd, runs, arg, fs, accounts, account, balance, answer,
                   decoded, secrets, out, exported, todo, listed>>

test_check ==
    /\ pc = "test_check"
    /\ LET actual == pmob2mob(balance.unspent_pmob)
       IN  IF tx.send = 1
           THEN IF IsTenthMob(actual)
                THEN /\ pc' = "test_submit"
                     /\ tx' = [tx EXCEPT !.send = 2]
                     /\ UNCHANGED exc
                ELSE AssertionFails /\ UNCHANGED tx
           ELSE IF IsZero(actual)
                THEN pc' = "test_remove" /\ UNCHANGED <<tx, exc>>
                ELSE AssertionFails /\ UNCHANGED tx
    /\ out' = out \o <<Printed("actual", {}), Printed("expected", {})>>
    /\ balance' = NoBalance
    /\ UNCHANGED <<cmd, runs, arg, fs, accounts, account, answer, decoded,
                   secrets, rpcs, exported, todo, listed, poll>>

test_remove ==
    /\ pc = "test_remove"
    /\ LET first == Rpc("remove_account", StrV(tx.dest.account_id), None)
           second == Rpc("remove_account", StrV(account.account_id), None)
       IN  \/ /\ rpcs' = rpcs \o <<first, second>>
              /\ out' = Append(out, Printed("PASS", {}))
              /\ pc' = "done"
              /\ UNCHANGED exc
           \/ RpcRaises(first) /\ UNCHANGED out
           \/ /\ rpcs' = rpcs \o <<first, second>>
              /\ pc' = "raised"
              /\ exc' = "WalletAPIError"
              /\ UNCHANGED out
    /\ UNCHANGED <<cmd, runs, arg, fs, accounts, account, balance, answer,
                   decoded, secrets, exported, todo, listed, poll, tx>>

----------------------------------------------------------------------------

Next ==
    \/ main \/ process_exit
    \/ import_load \/ import_account \/ import_balance
    \/ export_load \/ export_balance \/ export_confirm \/ export_secrets
    \/ export_save
    \/ delete_load \/ delete_balance \/ delete_confirm \/ delete_account
    \/ send_load \/ send_print
    \/ list_accounts \/ list_balance \/ list_print
    \/ test_transactions_inner \/ poll_fetch \/ test_txos \/ test_create
    \/ test_submit \/ test_check \/ test_remove

Spec == Init /\ [][Next]_vars

\* The program is one thread that runs on: a wait that can make its next
\* attempt makes it.
FairSpec == Spec /\ WF_vars(poll_fetch)


----------------------------------------------------------------------------
(* The claims. *)

Last(seq) == seq[Len(seq)]
CountOps(ops) == Cardinality({i \in 1..Len(rpcs) : rpcs[i].op \in ops})

\* C1: a wait for the block after a submitted transaction (target s + 1, s
\* the submitted block index) returns a balance only when the account's
\* synced index in that balance is at least s + 1, whatever network and
\* local index the balance reports.
C1_SuccessOnlyAtTarget ==
    pc = "test_check" =>
        /\ poll.result = "synced"
        /\ int(balance.account_block_index) >= tx.submitted + 1

\* C1 happens: the wait returned while the network index still reports s.
C1_Witness ==
    /\ pc = "test_check"
    /\ tx.submitted = BaseBlock
    /\ int(balance.network_block_index) = tx.submitted
    /\ int(balance.account_block_index) = tx.submitted + 1

\* C2: a wait makes at most MaxAttempts attempts; it returns a balance only
\* if that balance has caught up; when MaxAttempts balances were fetched and
\* none had caught up it ends with SyncTimeout, which reaches the caller;
\* and every wait ends.
C2_WaitEnds ==
    /\ [](pc = "poll" => poll.active /\ poll.attempts < MaxAttempts)
    /\ []((~poll.active /\ poll.result = "synced" /\ balance # NoBalance) =>
            IF poll.given
            THEN int(balance.account_block_index) >= poll.target
            ELSE int(balance.account_block_index) =
                    (IF int(balance.network_block_index) # 0
                     THEN int(balance.network_block_index)
                     ELSE int(balance.local_block_index)))
    /\ []((~poll.active /\ poll.attempts = MaxAttempts
            /\ poll.result # "synced") =>
            /\ poll.result = "SyncTimeout"
            /\ pc = "raised"
            /\ exc = "SyncTimeout")
    /\ (poll.active ~> ~poll.active)

\* C2 happens: a wait for a target ended with SyncTimeout.
C2_Witness ==
    /\ poll.given
    /\ poll.result = "SyncTimeout"
    /\ poll.attempts = MaxAttempts

YesForms ==
    {<<"y">>, <<"Y">>}
    \cup {<<a, b, c>> : a \in {"y", "Y"}, b \in {"e", "E"}, c \in {"s", "S"}}

Guarded == {"export_account_secrets", "delete_account", "send_transaction"}

\* C3 as claimed: export_account_secrets, delete_account and
\* send_transaction are issued only after an affirmative answer to the
\* prompt of the same command.
C3_AlwaysConfirmed ==
    \A i \in 1..Len(rpcs) : rpcs[i].op \in Guarded => answer \in YesForms

\* C3 as amended: export_account_secrets and send_transaction are issued
\* only after an affirmative answer; delete_account is issued after an
\* affirmative answer, or with no prompt at all when the balance fetched
\* is synced and its unspent amount is 0; an answer that is not affirmative
\* ends the command with 'Cancelled.' and none of these calls.
C3_ConfirmedUnlessEmpty ==
    /\ \A i \in 1..Len(rpcs) :
        /\ rpcs[i].op \in {"export_account_secrets", "send_transaction"}
            => answer \in YesForms
        /\ rpcs[i].op = "delete_account" =>
            \/ answer \in YesForms
            \/ /\ answer = NoAnswer
               /\ balance.is_synced
               /\ \A k \in 1..Len(balance.unspent_pmob) :
                    balance.unspent_pmob[k] = "0"
    /\ (answer # NoAnswer /\ answer \notin YesForms) =>
        /\ pc = "done"
        /\ Last(out).tag = "Cancelled."
        /\ CountOps(Guarded) = 0

\* C3 happens: the secrets were exported after the user typed YeS.
C3_Witness ==
    /\ cmd = "export"
    /\ answer = <<"Y", "e", "S">>
    /\ CountOps({"export_account_secrets"}) = 1

\* id starts with prefix, character by character
Begins(id, prefix) ==
    \A i \in 1..Len(prefix) : i <= Len(id) /\ id[i] = prefix[i]
Matches == {a \in accounts : Begins(a.account_id, arg.s)}
Resolving == cmd \in {"export", "delete", "send"}

\* C4: with the accounts just fetched, the prefix resolves to an account
\* exactly when one identifier starts with it, and to that account; with
\* none the command prints that it could not find one and exits with 1,
\* with several it prints all of them and exits with 1.
C4_Resolve ==
    /\ pc \in {"export_balance", "delete_balance", "send_print"} =>
        /\ Cardinality(Matches) = 1
        /\ account \in Matches
    /\ (Resolving /\ pc = "exit1") =>
        \/ /\ Cardinality(Matches) = 0
           /\ Last(out).tag = "Could not find account starting with"
        \/ /\ Cardinality(Matches) >= 2
           /\ Last(out).tag = "Multiple matching matching ids"
           /\ Last(out).ids = {a.account_id : a \in Matches}

\* C4 happens: 'a' is an account and the start of another, and is refused.
C4_Witness ==
    /\ cmd = "delete"
    /\ pc = "exit1"
    /\ arg.s = <<"a">>
    /\ Last(out).ids = {<<"a">>, <<"a", "b">>}

Is32Bytes(h) == h.ok /\ Len(h.bytes) = EntropyLen
\* _load_import has just returned or raised
JustDecoded ==
    /\ cmd = "import"
    /\ decoded.tried # <<>>
    /\ pc \in {"import_account", "raised"}
Tried(form) == \E i \in 1..Len(decoded.tried) : decoded.tried[i] = form

\* C5: a seed that hex-decodes to 32 bytes is returned as those bytes in
\* hex with no block, and neither the mnemonic parser nor the file is
\* tried; the mnemonic parser is tried only after the hex attempt failed,
\* the file only after both failed.
C5_Precedence ==
    JustDecoded =>
        \A h \in {fromhex(arg.s)} :
            /\ Is32Bytes(h) =>
                /\ decoded.ok
                /\ decoded.tried = <<"hex">>
                /\ decoded.entropy = StrV(hex(h.bytes))
                /\ decoded.block = None
            /\ Tried("mnemonic") => ~Is32Bytes(h)
            /\ Tried("file") =>
                /\ ~Is32Bytes(h)
                /\ ~to_entropy(arg.s, decoded.lib).ok

\* C5 happens: 32 bytes of hex that are also twelve words whose checksum
\* the mnemonic package would accept.
C5_Witness ==
    /\ JustDecoded
    /\ arg.s = HexWords
    /\ decoded.lib.checksum
    /\ decoded.ok

FileParses(seed) ==
    /\ seed \in DOMAIN fs
    /\ fs[seed].kind = "object"
    /\ \A i \in 1..Len(fs[seed].tail) : fs[seed].tail[i] \in {" ", "\n"}
    /\ \E i \in 1..Len(fs[seed].members) :
            fs[seed].members[i][1] = "root_entropy"
    /\ \E i \in 1..Len(fs[seed].members) :
            fs[seed].members[i][1] = "first_block_index"

\* What stands for InvalidSeed: the exception of open, json.load or the
\* lookup of a field, which nothing catches.
InvalidSeed == {"FileNotFoundError", "JSONDecodeError", "TypeError", "KeyError"}

\* C6: a seed that is neither 32 bytes of hex, nor a valid mnemonic, nor
\* the name of a file that opens and parses as a record with root_entropy
\* and first_block_index makes the decoding fail: no entropy is returned,
\* the exception ends the command and import_account is not called.
C6_Rejected ==
    (JustDecoded /\ ~FileParses(arg.s)) =>
        \A h \in {fromhex(arg.s)}, m \in {to_entropy(arg.s, decoded.lib)} :
            (~Is32Bytes(h) /\ ~m.ok) =>
                /\ ~decoded.ok
                /\ decoded.entropy = None
                /\ pc = "raised"
                /\ exc \in InvalidSeed
                /\ CountOps({"import_account"}) = 0

\* C6 happens: the seed names a file that is not JSON.
C6_Witness ==
    /\ JustDecoded
    /\ arg.s = InvalidFile
    /\ exc = "JSONDecodeError"

\* C7 as claimed: every entropy a decoding returns, and every entropy
\* import_account is given, is 32 bytes (64 hexadecimal digits).
C7_Entropy32 ==
    /\ (cmd = "import" /\ decoded.ok) =>
        Len(decoded.entropy.s) = 2 * EntropyLen
    /\ \A i \in 1..Len(rpcs) :
        rpcs[i].op = "import_account" => Len(rpcs[i].a.s) = 2 * EntropyLen

SubmitOps == {"build_and_submit_transaction", "send_transaction"}

\* C8: a send submits at most once (the test's two sends at most twice,
\* once each), and an exception of the submission ends the flow.
C8_SubmitOnce ==
    /\ CountOps(SubmitOps) <= (IF cmd = "test" THEN tx.send ELSE 1)
    /\ exc = "WalletAPIError" => pc = "raised"

\* C8 happens: the second submission of the test raised.
C8_Witness ==
    /\ cmd = "test"
    /\ tx.send = 2
    /\ CountOps(SubmitOps) = 2
    /\ exc = "WalletAPIError"
    /\ poll.result = "synced"

\* The line shows the balance's network index as the total, or, when that
\* index is 0, the local index and the offline mark.
ShowsCeiling(line, bal) ==
    /\ line.tag = "account"
    /\ IF int(bal.network_block_index) # 0
       THEN /\ int(line.total) = int(bal.network_block_index)
            /\ ~line.offline
       ELSE /\ line.total = bal.local_block_index
            /\ line.offline

\* C9: every account shown with a balance (import, export, delete, list)
\* shows as its total the network block index when that is not 0, and the
\* local block index, with the offline mark, when it is 0.
C9_Ceiling ==
    /\ (balance # NoBalance /\ cmd \in {"import", "export", "delete"}
            /\ out # <<>> /\ Last(out).tag = "account") =>
        ShowsCeiling(Last(out), balance)
    /\ (cmd = "list" /\ pc = "done" /\ listed # <<>>) =>
        /\ Len(out) = Len(listed)
        /\ \A i \in 1..Len(listed) : ShowsCeiling(out[i], listed[i][2])

\* C9 happens: a listing of an offline balance and an online one.
C9_Witness ==
    /\ cmd = "list"
    /\ pc = "done"
    /\ Len(out) = 2
    /\ out[1].offline /\ out[1].total = str(BaseBlock)
    /\ ~out[2].offline /\ out[2].total = str(BaseBlock + 1)

====
